---------------------------- MODULE Spec2Model ----------------------------
(***************************************************************************)
(* A model of src/rpc/types.rs: one upstream JSON-RPC endpoint (Rpc) with  *)
(* its health record (Status), the request dispatch (send_request), the    *)
(* two queries built on it (block_number, get_finalized_block), the        *)
(* latency window (update_latency) and the quantity decoder                *)
(* (extract_number, format_hex, hex_to_decimal).                           *)
(*                                                                         *)
(* Conventions.                                                            *)
(*  - A text (Rust &str / String) is a sequence of one-character strings;  *)
(*    all texts of the model are ASCII, so byte offsets and character      *)
(*    offsets agree.                                                       *)
(*  - A u64 is a little-endian sequence of NumLimbs limbs, each in         *)
(*    0..LimbBase-1, so that the full 64-bit range and its overflow are    *)
(*    represented although TLC's integers are 32 bits wide.                *)
(*  - An f64 latency sample is a small natural number (a duration in whole *)
(*    units); sums of such samples are exact in f64, and the quotient      *)
(*    sum / len is represented by the reduced fraction <<num, den>> that   *)
(*    the correctly rounded f64 division is a function of.                 *)
(*  - A call's outcome is a record Result: tag "Ok" or "Err" for the two   *)
(*    arms of Rust's Result, tag "Panic" when the call unwinds (an unwrap  *)
(*    of an Err/None, or an index out of range).                           *)
(***************************************************************************)
EXTENDS Integers, Sequences, FiniteSets

VARIABLES
    latency_data,     \* Status.latency_data : Vec<f64>
    latency,          \* Status.latency : f64, as a reduced fraction
    is_erroring,      \* Status.is_erroring
    last_error,       \* Status.last_error
    max_consecutive,  \* Rpc.max_consecutive
    consecutive,      \* Rpc.consecutive
    window,           \* the ma_length the caller passes to update_latency
    pushed,           \* every sample passed to update_latency so far, in order
    now,              \* the clock: one tick per dispatch
    failed,           \* failed dispatches since the last successful one
    rx,               \* what the transport did for the last dispatch
    ret,              \* the last call: its operation and its outcome
    hex_arg        \* the argument of the last direct hex_to_decimal call

vars == <<latency_data, latency, is_erroring, last_error, max_consecutive,
          consecutive, window, pushed, now, failed, rx, ret, hex_arg>>

statusVars == <<latency_data, latency, is_erroring, last_error>>
rpcVars == <<max_consecutive, consecutive>>

----------------------------------------------------------------------------
(* Bounds of the model *)

MaxSample == 4
MaxWindow == 3
MaxPushes == 4
MaxCalls == 3
MaxThreshold == 2
MaxQLen == 4
MaxHexLen == 4

----------------------------------------------------------------------------
(* Results *)

NoText == << >>
NoNum == << >>

Ok(num, text) == [tag |-> "Ok", kind |-> "", num |-> num, text |-> text]
Err(kind) == [tag |-> "Err", kind |-> kind, num |-> NoNum, text |-> NoText]
Panic == [tag |-> "Panic", kind |-> "", num |-> NoNum, text |-> NoText]
\* A call: the operation, its numeric arguments, its outcome.
Call(op, arg, res) == [op |-> op, arg |-> arg, res |-> res]
NoCall == Call("none", << >>, Ok(NoNum, NoText))

NoRx == [kind |-> "none", status |-> 0, text |-> NoText]

----------------------------------------------------------------------------
(* Status::default and Rpc::new *)

RECURSIVE Gcd(_, _)
Gcd(a, b) == IF b = 0 THEN a ELSE Gcd(b, a % b)

\* The f64 quotient a / b for exact a >= 0, b > 0.
FDiv(a, b) == LET g == Gcd(a, b) IN <<a \div g, b \div g>>

FZero == <<0, 1>>

StatusDefault ==
    /\ is_erroring = FALSE
    /\ last_error = 0
    /\ latency = FZero
    /\ latency_data = << >>

RpcNew(threshold) ==
    /\ StatusDefault
    /\ max_consecutive = threshold
    /\ consecutive = 0

----------------------------------------------------------------------------
(* update_latency *)

Samples == 0..MaxSample
Windows == 0..MaxWindow

\* `ma_length as usize`: the saturating float-to-integer cast.
AsUsize(x) == IF x < 0 THEN 0 ELSE x

\* Vec::remove(0): every later element moves one place down.
RemoveFirst(data) == SubSeq(data, 2, Len(data))

\* iter().sum::<f64>()
RECURSIVE IterSum(_)
IterSum(data) == IF data = << >> THEN 0 ELSE Head(data) + IterSum(Tail(data))

\* Lines 118-120; Vec::remove(0) panics on an empty vector.
EvictPanics(data, ma_length) ==
    Len(data) >= AsUsize(ma_length) /\ Len(data) = 0

EvictNewest(data, ma_length) ==
    IF Len(data) >= AsUsize(ma_length)
    THEN SubSeq(data, 1, Len(data) - 1)
    ELSE data

EvictAll(data, ma_length) ==
    IF Len(data) >= AsUsize(ma_length)
    THEN SubSeq(data, Len(data) - AsUsize(ma_length) + 2, Len(data))
    ELSE data

Evict(data, ma_length) ==
    IF Len(data) >= AsUsize(ma_length) THEN RemoveFirst(data) ELSE data

\* Lines 124-125, on the vector after the push.
StaleAverage(data) ==
    IF Len(data) = 1
    THEN FZero
    ELSE FDiv(IterSum(SubSeq(data, 1, Len(data) - 1)), Len(data) - 1)

MovingAverage(data) == FDiv(IterSum(data), Len(data))

update_latency(latest, ma_length) ==
    IF EvictPanics(latency_data, ma_length)
    THEN /\ ret' = Call("update_latency", <<latest, ma_length>>, Panic)
         /\ UNCHANGED <<latency_data, latency>>
    ELSE /\ latency_data' = Append(Evict(latency_data, ma_length), latest)
         /\ latency' = MovingAverage(latency_data')
         /\ ret' = Call("update_latency", <<latest, ma_length>>,
                         Ok(NoNum, NoText))

UpdateLatency ==
    /\ Len(pushed) < MaxPushes
    /\ \E latest \in Samples :
          /\ update_latency(latest, window)
          /\ pushed' = Append(pushed, latest)
    /\ UNCHANGED <<is_erroring, last_error, rpcVars, window, now, failed,
                   rx, hex_arg>>

\* The caller decides to pass another ma_length from now on.
ChangeWindow ==
    /\ \E w \in Windows : w # window /\ window' = w
    /\ UNCHANGED <<statusVars, rpcVars, pushed, now, failed, rx, ret,
                   hex_arg>>

InitLatency ==
    /\ RpcNew(0)
    /\ window \in Windows
    /\ pushed = << >>
    /\ now = 0
    /\ failed = 0
    /\ rx = NoRx
    /\ ret = NoCall
    /\ hex_arg = NoText

\* One caller that passes the same window on every call.
SpecFixedWindow == InitLatency /\ [][UpdateLatency]_vars

NextLatency == UpdateLatency \/ ChangeWindow

\* A caller that may pass another window from one call to the next.
SpecLatency == InitLatency /\ [][NextLatency]_vars

----------------------------------------------------------------------------
(* Texts on the wire *)

ResultPrefix ==
    <<"{", "\"", "j", "s", "o", "n", "r", "p", "c", "\"", ":", "\"", "2",
      ".", "0", "\"", ",", "\"", "i", "d", "\"", ":", "1", ",", "\"", "r",
      "e", "s", "u", "l", "t", "\"", ":", "\"">>

ResultSuffix ==
    <<"\"", "}">>

BlockPrefix ==
    <<"{", "\"", "j", "s", "o", "n", "r", "p", "c", "\"", ":", "\"", "2",
      ".", "0", "\"", ",", "\"", "i", "d", "\"", ":", "1", ",", "\"", "r",
      "e", "s", "u", "l", "t", "\"", ":", "{", "\"", "n", "u", "m", "b",
      "e", "r", "\"", ":", "\"">>

BlockSuffix ==
    <<"\"", "}", "}">>

EmptyObject ==
    <<"{", "}">>

NoResultText ==
    <<"{", "\"", "j", "s", "o", "n", "r", "p", "c", "\"", ":", "\"", "2",
      ".", "0", "\"", ",", "\"", "i", "d", "\"", ":", "1", "}">>

NullResultText ==
    <<"{", "\"", "j", "s", "o", "n", "r", "p", "c", "\"", ":", "\"", "2",
      ".", "0", "\"", ",", "\"", "i", "d", "\"", ":", "1", ",", "\"", "r",
      "e", "s", "u", "l", "t", "\"", ":", "n", "u", "l", "l", "}">>

ErrorText ==
    <<"{", "\"", "j", "s", "o", "n", "r", "p", "c", "\"", ":", "\"", "2",
      ".", "0", "\"", ",", "\"", "i", "d", "\"", ":", "1", ",", "\"", "e",
      "r", "r", "o", "r", "\"", ":", "{", "\"", "c", "o", "d", "e", "\"",
      ":", "-", "3", "2", "0", "0", "0", ",", "\"", "m", "e", "s", "s",
      "a", "g", "e", "\"", ":", "\"", "x", "\"", "}", "}">>

HtmlText ==
    <<"<", "h", "t", "m", "l", ">", "<", "b", "o", "d", "y", ">", "5", "0",
      "2", " ", "B", "a", "d", " ", "G", "a", "t", "e", "w", "a", "y", "<",
      "/", "b", "o", "d", "y", ">", "<", "/", "h", "t", "m", "l", ">">>

Hex113f756 ==
    <<"0", "x", "1", "1", "3", "f", "7", "5", "6">>

HexMaxU64 ==
    <<"0", "x", "f", "f", "f", "f", "f", "f", "f", "f", "f", "f", "f", "f",
      "f", "f", "f", "f">>

HexOver64 ==
    <<"0", "x", "1", "0", "0", "0", "0", "0", "0", "0", "0", "0", "0", "0",
      "0", "0", "0", "0", "0">>

HexPadded ==
    <<"0", "x", "0", "0", "0", "0", "0", "0", "0", "0", "0", "0", "0", "0",
      "0", "0", "0", "0", "1", "F">>

\* Every text over the alphabet A of at most n characters.
RECURSIVE TextsUpTo(_, _)
TextsUpTo(A, n) ==
    IF n = 0
    THEN {<< >>}
    ELSE LET S == TextsUpTo(A, n - 1)
         IN  S \cup {Append(t, c) : t \in S, c \in A}

Repeat(c, n) == [i \in 1..n |-> c]

\* {"jsonrpc":"2.0","id":1,"result":"<q>"}
Canon(q) == ResultPrefix \o q \o ResultSuffix

\* {"jsonrpc":"2.0","id":1,"result":{"number":"<q>"}}
CanonBlock(q) == BlockPrefix \o q \o BlockSuffix

----------------------------------------------------------------------------
(* u64 *)

LimbBase == 65536
Radix == 16

U64Zero == <<0, 0, 0, 0>>

\* The u64 of a number below 2^31.
U64(n) == <<n % LimbBase, n \div LimbBase, 0, 0>>

\* v.checked_mul(16) then checked_add(d): the new value and whether either
\* overflowed 64 bits.
MulAdd(v, d) ==
    LET t1 == v[1] * Radix + d
        t2 == v[2] * Radix + (t1 \div LimbBase)
        t3 == v[3] * Radix + (t2 \div LimbBase)
        t4 == v[4] * Radix + (t3 \div LimbBase)
    IN  [val |-> <<t1 % LimbBase, t2 % LimbBase, t3 % LimbBase,
                   t4 % LimbBase>>,
         overflow |-> t4 \div LimbBase > 0]

LowerDigits ==
    <<"0", "1", "2", "3", "4", "5", "6", "7", "8", "9", "a", "b", "c", "d",
      "e", "f">>

UpperDigits == <<"A", "B", "C", "D", "E", "F">>

\* char::to_digit(16) is Some
IsHexDigit(c) ==
    \/ \E i \in 1..Len(LowerDigits) : LowerDigits[i] = c
    \/ \E i \in 1..Len(UpperDigits) : UpperDigits[i] = c

\* char::to_digit(16), for a hexadecimal digit
DigitVal(c) ==
    IF \E i \in 1..Len(LowerDigits) : LowerDigits[i] = c
    THEN (CHOOSE i \in 1..Len(LowerDigits) : LowerDigits[i] = c) - 1
    ELSE (CHOOSE i \in 1..Len(UpperDigits) : UpperDigits[i] = c) + 9

\* The digit loop of u64::from_str_radix, from digit i on.
RECURSIVE ParseDigits(_, _, _)
ParseDigits(digits, i, acc) ==
    IF i > Len(digits)
    THEN Ok(acc, NoText)
    ELSE IF ~IsHexDigit(digits[i])
         THEN Err("ParseIntError")
         ELSE LET r == MulAdd(acc, DigitVal(digits[i]))
              IN  IF r.overflow
                  THEN Err("ParseIntError")
                  ELSE ParseDigits(digits, i + 1, r.val)

\* u64::from_str_radix(src, 16): an empty string and a lone sign are errors;
\* one leading "+" is skipped; a "-" is left in place for an unsigned type,
\* where it is then an invalid digit.
from_str_radix(src) ==
    IF src = << >>
    THEN Err("ParseIntError")
    ELSE IF Len(src) = 1 /\ src[1] \in {"+", "-"}
         THEN Err("ParseIntError")
         ELSE ParseDigits(IF src[1] = "+" THEN Tail(src) ELSE src, 1, U64Zero)

----------------------------------------------------------------------------
(* The quantity decoder *)

MinLen == 36
SliceStart == 34
SliceTail == 2

\* hex_string.replace("\"", "")
RemoveQuotes(s) == SelectSeq(s, LAMBDA c : c # "\"")

\* hex_string.starts_with("0x")
StartsWith0x(s) == Len(s) >= 2 /\ s[1] = "0" /\ s[2] = "x"

StripPrefix(s) ==
    LET t == RemoveQuotes(s)
    IN  IF StartsWith0x(t) THEN SubSeq(t, 3, Len(t)) ELSE t

hex_to_decimal(s) == from_str_radix(StripPrefix(s))

\* &hex[34..hex.len() - 2], as 1-based positions 35..len-2
SliceShifted(hex) == SubSeq(hex, SliceStart + 2, Len(hex) - SliceTail)

Slice(hex) == SubSeq(hex, SliceStart + 1, Len(hex) - SliceTail)

format_hex(hex) ==
    IF Len(hex) < MinLen
    THEN Err("OutOfBounds")
    ELSE Ok(NoNum, Slice(hex))

\* A text without the characters that end or escape a JSON string.
PlainString(q) == \A i \in 1..Len(q) : q[i] \notin {"\"", "\\"}

StartsWith(t, pre) ==
    Len(t) >= Len(pre) /\ SubSeq(t, 1, Len(pre)) = pre

EndsWith(t, suf) ==
    Len(t) >= Len(suf) /\ SubSeq(t, Len(t) - Len(suf) + 1, Len(t)) = suf

Between(t, pre, suf) == SubSeq(t, Len(pre) + 1, Len(t) - Len(suf))

Framed(t, pre, suf) ==
    /\ Len(t) >= Len(pre) + Len(suf)
    /\ StartsWith(t, pre)
    /\ EndsWith(t, suf)
    /\ PlainString(Between(t, pre, suf))

\* The valid JSON texts of the model whose "result" is absent, null or
\* anything else that is neither a string nor a block object.
OtherJson == {EmptyObject, NoResultText, NullResultText, ErrorText}

\* serde_json::from_str(rx) and json["result"], on the texts of the model:
\* whether the text is JSON, the shape of its result member, and the string
\* the member (or the block object's number member) holds.
ParseJson(t) ==
    IF Framed(t, ResultPrefix, ResultSuffix)
    THEN [valid |-> TRUE, shape |-> "string",
          str |-> Between(t, ResultPrefix, ResultSuffix)]
    ELSE IF Framed(t, BlockPrefix, BlockSuffix)
         THEN [valid |-> TRUE, shape |-> "object",
               str |-> Between(t, BlockPrefix, BlockSuffix)]
         ELSE IF t \in OtherJson
              THEN [valid |-> TRUE, shape |-> "other", str |-> NoText]
              ELSE [valid |-> FALSE, shape |-> "none", str |-> NoText]

extract_number(t) ==
    LET json == ParseJson(t)
    IN  IF ~json.valid
        THEN Panic
        ELSE IF json.shape # "string"
             THEN Err("InvalidResponse")
             ELSE LET number == hex_to_decimal(json.str)
                  IN  IF number.tag = "Err"
                      THEN Panic
                      ELSE Ok(number.num, NoText)

----------------------------------------------------------------------------
(* Dispatch and the two queries *)

\* What the transport does with one POST: it fails to send or connect, it
\* delivers a response whose body cannot be read, or it delivers a body.
SendFailed == [kind |-> "SendErr", status |-> 0, text |-> NoText]
BodyFailed(status) == [kind |-> "BodyErr", status |-> status, text |-> NoText]
Body(status, text) == [kind |-> "Body", status |-> status, text |-> text]

send_request(t) ==
    IF t.kind = "SendErr"
    THEN Err("InvalidResponse")
    ELSE IF t.kind = "BodyErr"
         THEN Panic
         ELSE Ok(NoNum, t.text)

block_number(t) ==
    LET number == send_request(t)
    IN  IF number.tag # "Ok"
        THEN number
        ELSE LET sliced == format_hex(number.text)
             IN  IF sliced.tag # "Ok"
                 THEN sliced
                 ELSE LET return_number == hex_to_decimal(sliced.text)
                      IN  IF return_number.tag = "Err"
                          THEN Panic
                          ELSE Ok(return_number.num, NoText)

get_finalized_block(t) ==
    LET response == send_request(t)
    IN  IF response.tag # "Ok"
        THEN response
        ELSE extract_number(response.text)

----------------------------------------------------------------------------
(* The inputs of the model *)

Statuses == {200, 500}

DispatchTexts == {NoText, Canon(Hex113f756), ErrorText, HtmlText}

DispatchOutcomes ==
    {SendFailed}
        \cup {BodyFailed(st) : st \in Statuses}
        \cup {Body(st, t) : st \in Statuses, t \in DispatchTexts}

QuantityAlphabet == {"0", "x", "f", "z", "\""}

Quantities ==
    TextsUpTo(QuantityAlphabet, MaxQLen)
        \cup {Hex113f756, HexMaxU64, HexOver64, HexPadded}

\* Canon(Hex113f756) cut off after 40 characters.
TruncatedText == SubSeq(Canon(Hex113f756), 1, 40)

QueryTexts ==
    {Canon(q) : q \in Quantities}
        \cup {CanonBlock(q) : q \in Quantities}
        \cup OtherJson
        \cup {NoText, HtmlText, TruncatedText, Repeat("z", MinLen - 1),
              Repeat("z", MinLen)}

QueryOutcomes ==
    {SendFailed, BodyFailed(200)} \cup {Body(200, t) : t \in QueryTexts}

HexAlphabet == {"0", "x", "f", "z", "\"", "+"}

Quoted0x10 == <<"\"", "0", "x", "1", "0", "\"">>

HexInputs ==
    TextsUpTo(HexAlphabet, MaxHexLen)
        \cup {Quoted0x10, Hex113f756, HexMaxU64, HexOver64, HexPadded,
              <<"-", "1">>, <<"0", "x", "0", "x", "1">>}

\* send_request takes &self: no field of the endpoint changes.
SendRequest ==
    /\ now < MaxCalls
    /\ \E t \in DispatchOutcomes :
          /\ rx' = t
          /\ ret' = Call("send_request", << >>, send_request(t))
          /\ failed' = IF t.kind = "Body" THEN 0 ELSE failed + 1
    /\ now' = now + 1
    /\ UNCHANGED <<statusVars, rpcVars, window, pushed, hex_arg>>

InitDispatch ==
    /\ \E threshold \in 0..MaxThreshold : RpcNew(threshold)
    /\ window = 0
    /\ pushed = << >>
    /\ now = 0
    /\ failed = 0
    /\ rx = NoRx
    /\ ret = NoCall
    /\ hex_arg = NoText

\* An endpoint and a sequence of dispatches, each answered by the transport
\* in one of its ways.
SpecDispatch == InitDispatch /\ [][SendRequest]_vars

\* block_number and get_finalized_block take &self as well; rx is the answer
\* the upstream gives to the POST.
BlockNumber ==
    /\ ret' = Call("block_number", << >>, block_number(rx))
    /\ UNCHANGED <<statusVars, rpcVars, window, pushed, now, failed, rx,
                   hex_arg>>

GetFinalizedBlock ==
    /\ ret' = Call("get_finalized_block", << >>, get_finalized_block(rx))
    /\ UNCHANGED <<statusVars, rpcVars, window, pushed, now, failed, rx,
                   hex_arg>>

InitQuery ==
    /\ RpcNew(0)
    /\ window = 0
    /\ pushed = << >>
    /\ now = 0
    /\ failed = 0
    /\ rx \in QueryOutcomes
    /\ ret = NoCall
    /\ hex_arg = NoText

NextQuery == BlockNumber \/ GetFinalizedBlock

\* An endpoint whose upstream answers in a given way, and the two queries.
SpecQuery == InitQuery /\ [][NextQuery]_vars

HexToDecimal ==
    /\ ret' = Call("hex_to_decimal", << >>, hex_to_decimal(hex_arg))
    /\ UNCHANGED <<statusVars, rpcVars, window, pushed, now, failed, rx,
                   hex_arg>>

InitHex ==
    /\ RpcNew(0)
    /\ window = 0
    /\ pushed = << >>
    /\ now = 0
    /\ failed = 0
    /\ rx = NoRx
    /\ ret = NoCall
    /\ hex_arg \in HexInputs

\* hex_to_decimal applied to a given text.
SpecHex == InitHex /\ [][HexToDecimal]_vars

----------------------------------------------------------------------------
(* Properties of the latency window *)

Min(a, b) == IF a < b THEN a ELSE b

LastN(s, n) == SubSeq(s, Len(s) - n + 1, Len(s))

\* The sum of a sequence, by index from the end.
RECURSIVE TotalUpTo(_, _)
TotalUpTo(s, i) == IF i = 0 THEN 0 ELSE s[i] + TotalUpTo(s, i - 1)

Completed(op) == ret.op = op /\ ret.res.tag = "Ok"

\* C1: with a fixed window N, every update_latency call completes and
\* leaves len(latency_data) <= N.
C1_WindowBound ==
    ret.op = "update_latency" =>
        /\ ret.res.tag = "Ok"
        /\ Len(latency_data) <= window

\* C2: with a fixed window N, after the samples s1..sk were passed in order
\* to update_latency on an initially empty history, latency_data is exactly
\* the last min(k, N) of them, in insertion order.
C2_Fifo ==
    latency_data = LastN(pushed, Min(Len(pushed), window))

\* C2's case: the window is full, and one more sample has pushed the oldest
\* one out (window 3; 1, 2, 3, 4 leave 2, 3, 4).
C2_Witness ==
    /\ Completed("update_latency")
    /\ window = 3
    /\ pushed = <<1, 2, 3, 4>>
    /\ latency_data = <<2, 3, 4>>

\* C3: whenever latency_data is non-empty, latency is the arithmetic mean of
\* its current contents: latency * len = sum.
C3_LatencyIsMean ==
    latency_data # << >> =>
        /\ latency[2] > 0
        /\ latency[1] * Len(latency_data)
             = latency[2] * TotalUpTo(latency_data, Len(latency_data))

\* C3's case: a call that evicted and pushed, and a mean that is not a sample
\* (2 and 4 and 1 retained after 3 was evicted: mean 7/3).
C3_Witness ==
    /\ Completed("update_latency")
    /\ Len(pushed) > Len(latency_data)
    /\ latency_data = <<2, 4, 1>>
    /\ latency = <<7, 3>>

\* C10: a completed update_latency call removes the oldest sample exactly
\* when the length before the call is >= the window passed to that call, and
\* then appends its sample; so the length stays or grows by one, and a
\* history longer than the new window is not truncated to it.
C10_NoRetroactiveResize ==
    [][(pushed' # pushed /\ ret'.op = "update_latency"
            /\ ret'.res.tag = "Ok") =>
        LET n == Len(latency_data)
            m == Len(latency_data')
            w == ret'.arg[2]
        IN  /\ m = (IF n >= w THEN n ELSE n + 1)
            /\ m \in {n, n + 1}
            /\ latency_data'[m] = ret'.arg[1]
            /\ SubSeq(latency_data', 1, m - 1)
                 = (IF n >= w THEN Tail(latency_data) ELSE latency_data)]_vars

\* C10's case: the history was filled under window 3, the caller then passed
\* window 1, and the push left three samples.
C10_Witness ==
    /\ Completed("update_latency")
    /\ ret.arg[2] = 1
    /\ Len(pushed) = 4
    /\ Len(latency_data) = 3

----------------------------------------------------------------------------
(* Properties of dispatch *)

DispatchFailed == rx.kind \in {"SendErr", "BodyErr"}

\* C4: after any sequence of dispatches, consecutive is the number of failed
\* dispatches since the last successful one, and once it has reached
\* max_consecutive the endpoint is erroring, with last_error the time of the
\* failure.
C4_ConsecutiveCountsFailures ==
    ret.op = "send_request" =>
        /\ consecutive = failed
        /\ (DispatchFailed /\ consecutive >= max_consecutive) =>
              (is_erroring /\ last_error = now)

\* C5: send_request never aborts the caller: a send or connection failure
\* and an unreadable body give an error value (the kind the specification
\* calls Transport), and any readable body is returned as it is, whatever
\* the HTTP status.
C5_DispatchNeverAborts ==
    ret.op = "send_request" =>
        /\ ret.res.tag # "Panic"
        /\ DispatchFailed => ret.res.tag = "Err"
        /\ rx.kind = "Body" => ret.res = Ok(NoNum, rx.text)

----------------------------------------------------------------------------
(* Properties of the decoder and the queries *)

ErrorKinds == {"OutOfBounds", "Malformed", "InvalidResponse", "ParseError"}

AllHexDigits(q) == \A i \in 1..Len(q) : IsHexDigit(q[i])

\* The digits of q that remain after its leading zeros.
RECURSIVE Significant(_)
Significant(q) ==
    IF q # << >> /\ Head(q) = "0" THEN Significant(Tail(q)) ELSE q

\* A hexadecimal numeral whose value is at most 2^64 - 1.
FitsU64(q) == Len(Significant(q)) <= 16

\* The digit of weight 16^p in the numeral q.
Nibble(q, p) == IF p < Len(q) THEN DigitVal(q[Len(q) - p]) ELSE 0

\* The value of the numeral q, read place by place.
ValueOf(q) ==
    [k \in 1..4 |->
        Nibble(q, 4 * k - 4) + 16 * Nibble(q, 4 * k - 3)
            + 256 * Nibble(q, 4 * k - 2) + 4096 * Nibble(q, 4 * k - 1)]

Numeral(q) == q # << >> /\ AllHexDigits(q) /\ FitsU64(q)

QueryAnswered(op) == ret.op = op /\ rx.kind = "Body"

\* C6: whatever body text the upstream returns, block_number and
\* get_finalized_block return Ok(height) or one of the typed errors; no text
\* aborts the caller.
C6_QueriesNeverAbort ==
    (QueryAnswered("block_number") \/ QueryAnswered("get_finalized_block"))
        => \/ ret.res.tag = "Ok"
           \/ ret.res.tag = "Err" /\ ret.res.kind \in ErrorKinds

\* {"jsonrpc":"2.0","id":1,"result":"0xHEX"} with HEX a numeral of 64 bits.
CanonicalQuantity(t) ==
    /\ Framed(t, ResultPrefix, ResultSuffix)
    /\ StartsWith(Between(t, ResultPrefix, ResultSuffix), <<"0", "x">>)
    /\ Numeral(Between(t, ResultPrefix \o <<"0", "x">>, ResultSuffix))

C8_FinalizedBlock ==
    QueryAnswered("get_finalized_block") =>
        LET json == ParseJson(rx.text)
        IN  /\ ~json.valid => ret.res = Err("Malformed")
            /\ (json.valid /\ json.shape = "other") =>
                  ret.res = Err("InvalidResponse")
            /\ (json.valid /\ json.shape = "object"
                    /\ StartsWith(json.str, <<"0", "x">>)
                    /\ Numeral(SubSeq(json.str, 3, Len(json.str)))) =>
                  ret.res = Ok(ValueOf(SubSeq(json.str, 3, Len(json.str))),
                               NoText)

\* The text without its quote characters.
RECURSIVE Unquoted(_)
Unquoted(s) ==
    IF s = << >>
    THEN << >>
    ELSE IF Head(s) = "\""
         THEN Unquoted(Tail(s))
         ELSE <<Head(s)>> \o Unquoted(Tail(s))

\* What is left of the text once its quotes and one leading 0x are removed.
Remainder(s) ==
    LET u == Unquoted(s)
    IN  IF Len(u) >= 2 /\ SubSeq(u, 1, 2) = <<"0", "x">>
        THEN SubSeq(u, 3, Len(u))
        ELSE u

\* C9: hex_to_decimal returns the base-16 value of what is left after the
\* quotes and one leading 0x are removed, and fails with a parse error,
\* without aborting, when that is empty, holds a character that is no
\* hexadecimal digit, or exceeds 2^64 - 1.
C9_HexToDecimal ==
    ret.op = "hex_to_decimal" =>
        LET r == Remainder(hex_arg)
        IN  /\ ret.res.tag # "Panic"
            /\ Numeral(r) => ret.res = Ok(ValueOf(r), NoText)
            /\ ~Numeral(r) => ret.res = Err("ParseIntError")
            /\ hex_arg = <<"0", "x", "f", "f">> => ret.res.num = U64(255)
            /\ hex_arg = Quoted0x10 => ret.res.num = U64(16)
            /\ hex_arg = <<"z", "z">> => ret.res.tag = "Err"

=============================================================================
